---- MODULE Spec2Model ----
(***************************************************************************)
(* Deep_CBRS_Amar_Renaissance: the data loading layer (data/loaders.py:    *)
(* ID remapping, adjacency construction, embedding alignment and batch     *)
(* samplers), the two-step GNN constructors (models/tsgnn.py) and the      *)
(* experiment logger (utilities/utils.py).  Arrays are 0-based in the      *)
(* program; here a numpy array is a TLA+ sequence and the program's        *)
(* position p is element p + 1.                                            *)
(***************************************************************************)
EXTENDS Integers, Sequences, FiniteSets, TLC

VARIABLES
    pc,            \* position of the driver: "start" before the call, "done" after
    train_file,    \* rows <<raw_user, raw_item, rating>> of the training ratings file
    test_file,     \* rows <<raw_user, raw_item, rating>> of the test ratings file
    ratings,       \* what load_train_test_ratings(return_adjacency=False) returned
    props_file,    \* rows <<raw_item, raw_property>> of the property triples file, or NoFile
    type_adjacency,        \* the caller's adjacency variant
    symmetric_adjacency,   \* the caller's symmetric flag
    graph,         \* what load_train_test_ratings(return_adjacency=True) returned,
                   \* by the sparse_adjacency flag of the call
    graph_file,    \* the list 'ent_embeddings' of the graph embeddings file
    bert_user_file,    \* the records of the users' BERT embeddings file
    bert_item_file,    \* the records of the items' BERT embeddings file
    loaded,        \* what the loader that was called returned
    epoch,         \* the enumeration of one sampler: which one, the order of its
                   \* interactions, the next batch, the batches given out
    config,        \* the caller's arguments of a two-step GNN: the class, the
                   \* collection of adjacency matrices, item_node, n_layers
    n_hiddens,     \* the caller's n_hiddens object: its type and its elements
    models,        \* the outcomes of the constructions so far, in order
    logger,        \* the logger 'callback' of the process: its handlers, its
                   \* level, its propagate flag
    created,       \* the number of file handlers created so far
    written        \* for every record logged so far, the files it was written to

fileVars == <<train_file, test_file>>

adjacencyVars == <<props_file, type_adjacency, symmetric_adjacency>>

embeddingFileVars == <<graph_file, bert_user_file, bert_item_file>>

modelVars == <<config, n_hiddens, models>>

loggerVars == <<logger, created, written>>

vars == <<pc, train_file, test_file, ratings, props_file, type_adjacency,
          symmetric_adjacency, graph, graph_file, bert_user_file,
          bert_item_file, loaded, epoch, config, n_hiddens, models, logger,
          created, written>>

(***************************************************************************)
(* Bounds and input domains                                                *)
(***************************************************************************)
MaxTrain == 2
MaxTest == 2

RawUserIds == {-1, 1}
RawItemIds == {1, 2}
RawRatings == {0, 1}

RawRows == {<<u, i, r>> : u \in RawUserIds, i \in RawItemIds, r \in RawRatings}

\* Non-empty tables of at most n rows (pd.read_csv rejects an empty file).
Tables(n) == UNION {[1..k -> RawRows] : k \in 1..n}

NoReturn == [status |-> "none"]

\* props_filepath=None.  A file that is read holds at least one row, so the
\* empty table stands for no file.
NoFile == <<>>

NoEpoch == [which |-> "none"]

\* The variables of the adjacency calls, while no such call is modelled.
IdleGraph ==
    /\ props_file = NoFile
    /\ type_adjacency = "unary"
    /\ symmetric_adjacency = TRUE
    /\ graph = [sp \in BOOLEAN |-> NoReturn]

\* The variables of the two-step GNNs, while no model is constructed.
IdleModels ==
    /\ config = [class |-> "none"]
    /\ n_hiddens = [type |-> "none"]
    /\ models = <<>>

\* The logger of a process that has not touched it: logging.getLogger gives
\* a logger without handlers, of level NOTSET, that propagates.
IdleLogger ==
    /\ logger = [handlers |-> <<>>, level |-> "NOTSET", propagate |-> TRUE]
    /\ created = 0
    /\ written = <<>>

\* The variables of the embeddings loaders, while no such call is modelled.
IdleEmbeddings ==
    /\ graph_file = <<>>
    /\ bert_user_file = <<>>
    /\ bert_item_file = <<>>
    /\ loaded = NoReturn
    /\ epoch = NoEpoch

(***************************************************************************)
(* numpy primitives, as load_train_test_ratings uses them                  *)
(***************************************************************************)
Column(table, c) == [k \in 1..Len(table) |-> table[k][c]]

Values(seq) == {seq[k] : k \in 1..Len(seq)}

SetMin(S) == CHOOSE m \in S : \A x \in S : m <= x

RECURSIVE SortedSeq(_)
SortedSeq(S) == IF S = {} THEN <<>>
                ELSE LET m == SetMin(S) IN <<m>> \o SortedSeq(S \ {m})

\* 0-based position of x in a sequence without duplicates that holds x.
PositionOf(seq, x) == (CHOOSE j \in 1..Len(seq) : seq[j] = x) - 1

\* np.unique(col, return_inverse=True): the sorted distinct values and, for
\* every element of col, the 0-based position of its value among them.
np_unique_values(col) == SortedSeq(Values(col))

np_unique_inverse(col) ==
    LET uniq == np_unique_values(col)
    IN  [k \in 1..Len(col) |-> PositionOf(uniq, col[k])]

\* np.argwhere(col[:, None] == uniq)[:, 1]: the matches of the len(col) x
\* len(uniq) comparison matrix in row-major order, keeping the column of each.
RECURSIVE MatchesOfRow(_, _, _)
MatchesOfRow(x, uniq, j) ==
    IF j > Len(uniq) THEN <<>>
    ELSE (IF uniq[j] = x THEN <<j - 1>> ELSE <<>>) \o MatchesOfRow(x, uniq, j + 1)

RECURSIVE ArgwhereFrom(_, _, _)
ArgwhereFrom(col, uniq, k) ==
    IF k > Len(col) THEN <<>>
    ELSE MatchesOfRow(col[k], uniq, 1) \o ArgwhereFrom(col, uniq, k + 1)

\* Mutation: column 0 of the matches (the row of each) is kept instead.
RECURSIVE ArgwhereRowsFrom(_, _, _)
ArgwhereRowsFrom(col, uniq, k) ==
    IF k > Len(col) THEN <<>>
    ELSE [j \in 1..Len(MatchesOfRow(col[k], uniq, 1)) |-> k - 1]
         \o ArgwhereRowsFrom(col, uniq, k + 1)

np_argwhere_col0(col, uniq) == ArgwhereRowsFrom(col, uniq, 1)

np_argwhere_col1(col, uniq) == ArgwhereFrom(col, uniq, 1)

\* arr += n
AddOffset(arr, n) == [k \in 1..Len(arr) |-> arr[k] + n]

\* np.stack([a, b, c], axis=1): one row per position; the arrays must have
\* the same shape, otherwise numpy raises ValueError.
\* Mutation: only the two index columns are compared.
StackOkIndexColumns(a, b, c) == Len(a) = Len(b)

StackOk(a, b, c) == Len(a) = Len(b) /\ Len(b) = Len(c)

np_stack(a, b, c) == [k \in 1..Len(a) |-> <<a[k], b[k], c[k]>>]

(***************************************************************************)
(* load_train_test_ratings, lines 42-59 (return_adjacency=False)           *)
(***************************************************************************)
Users(train) == np_unique_values(Column(train, 1))

Items(train) == np_unique_values(Column(train, 2))

TrainUserIndexes(train) == np_unique_inverse(Column(train, 1))

\* Mutation: the offset of line 49 is forgotten.
TrainItemIndexesNoOffset(train) == np_unique_inverse(Column(train, 2))

TrainItemIndexes(train) ==
    AddOffset(np_unique_inverse(Column(train, 2)), Len(Users(train)))

RemapTrain(train) ==
    np_stack(TrainUserIndexes(train), TrainItemIndexes(train), Column(train, 3))

TestUserIndexes(train, test) == np_argwhere_col1(Column(test, 1), Users(train))

TestItemIndexes(train, test) ==
    AddOffset(np_argwhere_col1(Column(test, 2), Items(train)), Len(Users(train)))

\* Mutation: the ids of the test split are added to users and items.
load_train_test_ratings_all_ids(train, test) ==
    LET all == train \o test
    IN  [status        |-> "ok",
         train_ratings |-> SubSeq(RemapTrain(all), 1, Len(train)),
         test_ratings  |-> np_stack(TestUserIndexes(all, test),
                                    TestItemIndexes(all, test), Column(test, 3)),
         users         |-> Users(all),
         items         |-> Items(all)]

load_train_test_ratings(train, test) ==
    IF StackOk(TestUserIndexes(train, test), TestItemIndexes(train, test),
               Column(test, 3))
    THEN [status        |-> "ok",
          train_ratings |-> RemapTrain(train),
          test_ratings  |-> np_stack(TestUserIndexes(train, test),
                                     TestItemIndexes(train, test),
                                     Column(test, 3)),
          users         |-> Users(train),
          items         |-> Items(train)]
    ELSE [status |-> "ValueError"]

(***************************************************************************)
(* load_train_test_ratings, lines 61-71: the property triples              *)
(***************************************************************************)
\* Mutation: the file is read whenever it is given, whatever the variant.
UsesPropsAnyVariant(type, props) == props # NoFile

UsesProps(type, props) == type \in {"unary-kg", "unary-uip"} /\ props # NoFile

PropsItemIndexes(train, props) == np_argwhere_col1(Column(props, 1), Items(train))

Props(props) == np_unique_values(Column(props, 2))

\* Mutation: the offset of line 66 is forgotten.
PropsIndexesNoOffset(train, props) == np_unique_inverse(Column(props, 2))

PropsIndexes(train, props) ==
    AddOffset(np_unique_inverse(Column(props, 2)), Len(Items(train)))

Ones(n) == [k \in 1..n |-> 1]

PropsStackOk(train, props) ==
    StackOk(PropsItemIndexes(train, props), PropsIndexes(train, props),
            Ones(Len(PropsIndexes(train, props))))

PropsTriples(train, props) ==
    np_stack(PropsItemIndexes(train, props), PropsIndexes(train, props),
             Ones(Len(PropsIndexes(train, props))))

(***************************************************************************)
(* build_adjacency_matrix (data.preprocess).  A sparse matrix is the set   *)
(* of its stored cells <<row, column, value>>; a dense matrix is the array *)
(* of all its entries.                                                     *)
(***************************************************************************)
Weight(type, r) == IF type = "binary" THEN r ELSE 1

\* The directed cells user -> item of the interactions.
UserItemCells(interactions, type) ==
    {<<interactions[k][1], interactions[k][2], Weight(type, interactions[k][3])>> :
        k \in 1..Len(interactions)}

\* The directed cells item -> property of the triples, moved by off.
ItemPropertyCells(triples, off) ==
    {<<triples[k][1] + off, triples[k][2] + off, triples[k][3]>> :
        k \in 1..Len(triples)}

Transposed(cells) == {<<c[2], c[1], c[3]>> : c \in cells}

Nodes(n) == 0..(n - 1)

\* A zero array, then one assignment per cell.
DenseOf(n, cells) ==
    [a \in Nodes(n), b \in Nodes(n) |->
        IF \E c \in cells : c[1] = a /\ c[2] = b
        THEN (CHOOSE c \in cells : c[1] = a /\ c[2] = b)[3]
        ELSE 0]

\* A u A^T: the transpose is added wherever an entry has no mirror.
SymmetrizeDense(n, arr) ==
    [a \in Nodes(n), b \in Nodes(n) |->
        IF arr[a, b] # 0 THEN arr[a, b] ELSE arr[b, a]]

SymmetrizeSparse(cells) == cells \cup Transposed(cells)

Symmetrize(m) ==
    IF m.storage = "dense"
    THEN [m EXCEPT !.arr = SymmetrizeDense(m.n, m.arr)]
    ELSE [m EXCEPT !.coo = SymmetrizeSparse(m.coo)]

Matrix(n, cells, sparse, symmetric) ==
    LET directed == IF sparse
                    THEN [storage |-> "sparse", n |-> n, coo |-> cells]
                    ELSE [storage |-> "dense", n |-> n, arr |-> DenseOf(n, cells)]
    IN  IF symmetric THEN Symmetrize(directed) ELSE directed

\* The entries of a matrix, whatever its storage.
ToDense(m) == IF m.storage = "dense" THEN m.arr ELSE DenseOf(m.n, m.coo)

build_adjacency_matrix(interactions, users, items, props_triples, props, type, sparse, symmetric) ==
    LET nu == Len(users)
        ni == Len(items)
        ui == UserItemCells(interactions, type)
    IN  IF props_triples = NoFile \/ type \in {"unary", "binary"}
        THEN [pair |-> FALSE,
              mats |-> <<Matrix(nu + ni, ui, sparse, symmetric)>>]
        ELSE IF type = "unary-kg"
        THEN [pair |-> TRUE,
              mats |-> <<Matrix(nu + ni, ui, sparse, symmetric),
                         Matrix(ni + Len(props), ItemPropertyCells(props_triples, 0),
                                sparse, symmetric)>>]
        ELSE [pair |-> FALSE,
              mats |-> <<Matrix(nu + ni + Len(props),
                                ui \cup ItemPropertyCells(props_triples, nu),
                                sparse, symmetric)>>]

(***************************************************************************)
(* load_train_test_ratings, lines 73-82 (return_adjacency=True)            *)
(***************************************************************************)
\* Mutation: the variant reaches the builder only when sparse_adjacency is set.
AdjacencyMatrixTypeOnlyIfSparse(train, props, type, sparse, symmetric) ==
    build_adjacency_matrix(
        RemapTrain(train), Users(train), Items(train),
        IF UsesProps(type, props) THEN PropsTriples(train, props) ELSE NoFile,
        IF UsesProps(type, props) THEN Props(props) ELSE NoFile,
        IF sparse THEN type ELSE "unary", sparse, symmetric)

\* Mutation: symmetric_adjacency is not passed on, the builder's default applies.
AdjacencyMatrixDefaultSymmetric(train, props, type, sparse, symmetric) ==
    build_adjacency_matrix(
        RemapTrain(train), Users(train), Items(train),
        IF UsesProps(type, props) THEN PropsTriples(train, props) ELSE NoFile,
        IF UsesProps(type, props) THEN Props(props) ELSE NoFile,
        type, sparse, TRUE)

\* Mutation: the raw training rows are passed instead of the remapped ones.
AdjacencyMatrixRawRows(train, props, type, sparse, symmetric) ==
    build_adjacency_matrix(
        train, Users(train), Items(train),
        IF UsesProps(type, props) THEN PropsTriples(train, props) ELSE NoFile,
        IF UsesProps(type, props) THEN Props(props) ELSE NoFile,
        type, sparse, symmetric)

AdjacencyMatrix(train, props, type, sparse, symmetric) ==
    build_adjacency_matrix(
        RemapTrain(train), Users(train), Items(train),
        IF UsesProps(type, props) THEN PropsTriples(train, props) ELSE NoFile,
        IF UsesProps(type, props) THEN Props(props) ELSE NoFile,
        type, sparse, symmetric)

load_train_test_ratings_adjacency(train, test, props, type, sparse, symmetric) ==
    LET r == load_train_test_ratings(train, test)
    IN  IF r.status # "ok" THEN r
        ELSE IF UsesProps(type, props) /\ ~PropsStackOk(train, props)
        THEN [status |-> "ValueError"]
        ELSE [status        |-> "ok",
              train_ratings |-> r.train_ratings,
              test_ratings  |-> r.test_ratings,
              users         |-> r.users,
              items         |-> r.items,
              adj_matrix    |-> AdjacencyMatrix(train, props, type, sparse, symmetric)]

(***************************************************************************)
(* Embedding alignment, lines 85-144.  The vector of an entity in a source *)
(* is a token naming the source and the entity it was computed for.        *)
(***************************************************************************)
MaxGraph == 3

\* The list 'ent_embeddings' of n entities: position p holds entity p's vector.
GraphFile(n) == [q \in 1..n |-> <<"graph", q - 1>>]

\* The records of a BERT file for the entities ids, in the order given.
BertFile(ids, field) == [q \in 1..Len(ids) |-> [ID_OpenKE |-> ids[q], vector |-> <<field, ids[q]>>]]

\* The sequences that hold each element of S once.
Orders(S) == {o \in [1..Cardinality(S) -> S] : Values(o) = S}

BertFiles(S, field) == {BertFile(o, field) : o \in UNION {Orders(T) : T \in SUBSET S}}

json_load_graph_embeddings(file) == file

\* embeddings.sort_values(by=['ID_OpenKE'])
json_load_bert_embeddings(file) ==
    LET sorted == SortedSeq({file[q].ID_OpenKE : q \in 1..Len(file)})
    IN  [q \in 1..Len(sorted) |->
            CHOOSE rec \in Values(file) : rec.ID_OpenKE = sorted[q]]

\* arr[ids] with an integer array ids: an index e of -len(arr)..-1 counts from
\* the end, any index outside -len(arr)..len(arr)-1 raises IndexError.
IndexOk(arr, ids) ==
    \A k \in 1..Len(ids) : ids[k] \in (0 - Len(arr))..(Len(arr) - 1)

RowAt(arr, e) == IF e >= 0 THEN arr[e + 1] ELSE arr[Len(arr) + e + 1]

np_take(arr, ids) == [k \in 1..Len(ids) |-> RowAt(arr, ids[k])]

load_graph_user_item_embeddings(file, users, items) ==
    LET graph_embeddings == json_load_graph_embeddings(file)
    IN  IF IndexOk(graph_embeddings, users) /\ IndexOk(graph_embeddings, items)
        THEN [status |-> "ok",
              table  |-> np_take(graph_embeddings, users)
                         \o np_take(graph_embeddings, items)]
        ELSE [status |-> "IndexError"]

\* The dict filled by the loops of lines 136-141: a later record replaces an
\* earlier one of the same id.
DictKeys(records) == {records[q].ID_OpenKE : q \in 1..Len(records)}

DictGet(records, id) ==
    LET last == CHOOSE q \in 1..Len(records) :
                    /\ records[q].ID_OpenKE = id
                    /\ \A q2 \in 1..Len(records) :
                           records[q2].ID_OpenKE = id => q2 <= q
    IN  records[last].vector

load_bert_user_item_embeddings(user_file, item_file, users, items) ==
    LET df_users == json_load_bert_embeddings(user_file)
        df_items == json_load_bert_embeddings(item_file)
    IN  IF /\ Values(users) \subseteq DictKeys(df_users)
           /\ Values(items) \subseteq DictKeys(df_items)
        THEN [status |-> "ok",
              table  |-> [k \in 1..Len(users) |-> DictGet(df_users, users[k])]
                         \o [k \in 1..Len(items) |-> DictGet(df_items, items[k])]]
        ELSE [status |-> "KeyError"]

(***************************************************************************)
(* The embeddings loaders, lines 147-271, and the samplers they build      *)
(* (data.datasets)                                                         *)
(***************************************************************************)
DefaultTrainBatchSize == 1024
DefaultTestBatchSize == 2048

UserItemEmbeddings(interactions, users, items, embeddings, batch_size, shuffle) ==
    [kind |-> "UserItemEmbeddings", ratings |-> interactions, users |-> users,
     items |-> items, embeddings |-> <<embeddings>>,
     batch_size |-> batch_size, shuffle |-> shuffle]

HybridUserItemEmbeddings(interactions, users, items, graph_embeddings, bert_embeddings, batch_size, shuffle) ==
    [kind |-> "HybridUserItemEmbeddings", ratings |-> interactions, users |-> users,
     items |-> items, embeddings |-> <<graph_embeddings, bert_embeddings>>,
     batch_size |-> batch_size, shuffle |-> shuffle]

load_graph_embeddings(train, test, file, shuffle) ==
    LET r == load_train_test_ratings(train, test)
        e == load_graph_user_item_embeddings(file, r.users, r.items)
    IN  IF r.status # "ok" THEN r
        ELSE IF e.status # "ok" THEN e
        ELSE [status     |-> "ok",
              data_train |-> UserItemEmbeddings(r.train_ratings, r.users, r.items,
                                 e.table, DefaultTrainBatchSize, shuffle),
              data_test  |-> UserItemEmbeddings(r.test_ratings, r.users, r.items,
                                 e.table, DefaultTestBatchSize, FALSE)]

\* Mutation: the caller's shuffle flag is passed to the test sampler too.
load_bert_embeddings_shuffled_test(train, test, user_file, item_file, shuffle) ==
    LET r == load_train_test_ratings(train, test)
        e == load_bert_user_item_embeddings(user_file, item_file, r.users, r.items)
    IN  IF r.status # "ok" THEN r
        ELSE IF e.status # "ok" THEN e
        ELSE [status     |-> "ok",
              data_train |-> UserItemEmbeddings(r.train_ratings, r.users, r.items,
                                 e.table, DefaultTrainBatchSize, shuffle),
              data_test  |-> UserItemEmbeddings(r.test_ratings, r.users, r.items,
                                 e.table, DefaultTestBatchSize, shuffle)]

load_bert_embeddings(train, test, user_file, item_file, shuffle) ==
    LET r == load_train_test_ratings(train, test)
        e == load_bert_user_item_embeddings(user_file, item_file, r.users, r.items)
    IN  IF r.status # "ok" THEN r
        ELSE IF e.status # "ok" THEN e
        ELSE [status     |-> "ok",
              data_train |-> UserItemEmbeddings(r.train_ratings, r.users, r.items,
                                 e.table, DefaultTrainBatchSize, shuffle),
              data_test  |-> UserItemEmbeddings(r.test_ratings, r.users, r.items,
                                 e.table, DefaultTestBatchSize, FALSE)]

load_hybrid_embeddings(train, test, file, user_file, item_file, shuffle) ==
    LET r == load_train_test_ratings(train, test)
        g == load_graph_user_item_embeddings(file, r.users, r.items)
        b == load_bert_user_item_embeddings(user_file, item_file, r.users, r.items)
    IN  IF r.status # "ok" THEN r
        ELSE IF g.status # "ok" THEN g
        ELSE IF b.status # "ok" THEN b
        ELSE [status     |-> "ok",
              data_train |-> HybridUserItemEmbeddings(r.train_ratings, r.users,
                                 r.items, g.table, b.table,
                                 DefaultTrainBatchSize, shuffle),
              data_test  |-> HybridUserItemEmbeddings(r.test_ratings, r.users,
                                 r.items, g.table, b.table,
                                 DefaultTestBatchSize, FALSE)]

(***************************************************************************)
(* The graph samplers (data.datasets): a sequence of minibatches over the  *)
(* interactions, enumerated once per epoch                                 *)
(***************************************************************************)
UserItemGraph(interactions, users, items, adj_matrix, batch_size, shuffle) ==
    [kind |-> "UserItemGraph", ratings |-> interactions, users |-> users,
     items |-> items, adj_matrix |-> adj_matrix,
     batch_size |-> batch_size, shuffle |-> shuffle]

\* The loader passes no shuffle flag to the sampling variant.
UserItemGraphPosNegSample(interactions, users, items, adj_matrix, batch_size) ==
    [kind |-> "UserItemGraphPosNegSample", ratings |-> interactions,
     users |-> users, items |-> items, adj_matrix |-> adj_matrix,
     batch_size |-> batch_size]

\* len(sampler) = ceil(len(interactions) / batch_size)
SamplerLen(s) == (Len(s.ratings) + s.batch_size - 1) \div s.batch_size

\* The orders in which an epoch may visit the interactions.
\* The sampling variant may visit them in any order.
EpochOrders(s) ==
    IF s.kind = "UserItemGraphPosNegSample" THEN Orders(1..Len(s.ratings))
    ELSE IF s.shuffle THEN Orders(1..Len(s.ratings))
    ELSE {[j \in 1..Len(s.ratings) |-> j]}

\* The interactions of batch idx: positions idx * B .. (idx + 1) * B - 1 of
\* the epoch's order, as far as they exist.
BatchRows(s, order, idx) ==
    LET first == idx * s.batch_size
        last  == IF first + s.batch_size < Len(s.ratings)
                 THEN first + s.batch_size ELSE Len(s.ratings)
    IN  [j \in 1..(last - first) |-> s.ratings[order[first + j]]]

\* The item indices of the sampler, and the training edges of a user.
ItemIndexes(s) == Len(s.users)..(Len(s.users) + Len(s.items) - 1)

HasEdge(s, u, i) == \E k \in 1..Len(s.ratings) : s.ratings[k][1] = u /\ s.ratings[k][2] = i

(***************************************************************************)
(* The user-property matrix (get_user_properties, data.preprocess) and the *)
(* step of the graph loaders that asks for it, lines 319-322 and 427-430   *)
(***************************************************************************)
RECURSIVE SumOver(_, _)
SumOver(f, S) ==
    IF S = {} THEN 0
    ELSE LET x == CHOOSE y \in S : TRUE IN f[x] + SumOver(f, S \ {x})

\* Entry (u, p) is the sum over the items i of ui[u, i] * ip[i, p], the
\* weighted number of paths u -> i -> p.
get_user_properties(ui_adj, ip_adj, n_users, n_items) ==
    LET ui == ToDense(ui_adj)
        ip == ToDense(ip_adj)
        n_props == ip_adj.n - n_items
    IN  [n_rows |-> n_users, n_cols |-> n_props,
         arr |-> [u \in Nodes(n_users), q \in Nodes(n_props) |->
                     SumOver([i \in Nodes(n_items) |->
                                 ui[u, n_users + i] * ip[i, n_items + q]],
                             Nodes(n_items))]]

\* ui_adj, ip_adj = adj_matrix, where adj_matrix is one matrix of n rows:
\* Python iterates over the rows.  With n # 2 the assignment raises ("too
\* many values to unpack", or TypeError for a matrix class that cannot be
\* indexed); with n = 2 the two rows are taken for the two matrices.
UnpackSingle(m) ==
    IF m.n = 2 THEN [status |-> "TwoRowsUnpacked"] ELSE [status |-> "UnpackError"]

with_user_properties(adj_matrix, users, items, type, user_properties) ==
    IF ~(user_properties /\ type # "unary-uip")
    THEN [status |-> "ok", adj_matrix |-> adj_matrix]
    ELSE IF ~adj_matrix.pair
    THEN UnpackSingle(adj_matrix.mats[1])
    ELSE LET ui_adj == adj_matrix.mats[1]
             ip_adj == adj_matrix.mats[2]
         IN  [status |-> "ok",
              adj_matrix |-> [pair |-> TRUE,
                              mats |-> <<ui_adj, ip_adj,
                                         get_user_properties(ui_adj, ip_adj,
                                             Len(users), Len(items))>>]]

(***************************************************************************)
(* The graph loaders, lines 274-442                                        *)
(***************************************************************************)
UserItemGraphEmbeddings(interactions, users, items, adj_matrix, embeddings, batch_size, shuffle) ==
    [kind |-> "UserItemGraphEmbeddings", ratings |-> interactions, users |-> users,
     items |-> items, adj_matrix |-> adj_matrix, embeddings |-> <<embeddings>>,
     batch_size |-> batch_size, shuffle |-> shuffle]

\* Mutation: the caller's shuffle flag is passed to the test sampler too.
load_user_item_graph_shuffled_test(train, test, props, type, sparse, symmetric, user_properties, shuffle, train_batch_size, test_batch_size) ==
    LET r == load_train_test_ratings_adjacency(train, test, props, type, sparse, symmetric)
        a == with_user_properties(r.adj_matrix, r.users, r.items, type, user_properties)
    IN  IF r.status # "ok" THEN r
        ELSE IF a.status # "ok" THEN a
        ELSE [status     |-> "ok",
              data_train |-> UserItemGraph(r.train_ratings, r.users, r.items,
                                 a.adj_matrix, train_batch_size, shuffle),
              data_test  |-> UserItemGraph(r.test_ratings, r.users, r.items,
                                 a.adj_matrix, test_batch_size, shuffle)]

load_user_item_graph(train, test, props, type, sparse, symmetric, user_properties, shuffle, train_batch_size, test_batch_size) ==
    LET r == load_train_test_ratings_adjacency(train, test, props, type, sparse, symmetric)
        a == with_user_properties(r.adj_matrix, r.users, r.items, type, user_properties)
    IN  IF r.status # "ok" THEN r
        ELSE IF a.status # "ok" THEN a
        ELSE [status     |-> "ok",
              data_train |-> UserItemGraph(r.train_ratings, r.users, r.items,
                                 a.adj_matrix, train_batch_size, shuffle),
              data_test  |-> UserItemGraph(r.test_ratings, r.users, r.items,
                                 a.adj_matrix, test_batch_size, FALSE)]

\* Mutation: the sampling variant is built for the test split too.
load_user_item_graph_sample_both(train, test, props, type, sparse, symmetric, train_batch_size, test_batch_size) ==
    LET r == load_train_test_ratings_adjacency(train, test, props, type, sparse, symmetric)
    IN  IF r.status # "ok" THEN r
        ELSE [status     |-> "ok",
              data_train |-> UserItemGraphPosNegSample(r.train_ratings, r.users,
                                 r.items, r.adj_matrix, train_batch_size),
              data_test  |-> UserItemGraphPosNegSample(r.test_ratings, r.users,
                                 r.items, r.adj_matrix, test_batch_size)]

load_user_item_graph_sample(train, test, props, type, sparse, symmetric, train_batch_size, test_batch_size) ==
    LET r == load_train_test_ratings_adjacency(train, test, props, type, sparse, symmetric)
    IN  IF r.status # "ok" THEN r
        ELSE [status     |-> "ok",
              data_train |-> UserItemGraphPosNegSample(r.train_ratings, r.users,
                                 r.items, r.adj_matrix, train_batch_size),
              data_test  |-> UserItemGraph(r.test_ratings, r.users, r.items,
                                 r.adj_matrix, test_batch_size, FALSE)]

load_user_item_graph_bert_embeddings(train, test, user_file, item_file, props, type, sparse, symmetric, user_properties, shuffle, train_batch_size, test_batch_size) ==
    LET r == load_train_test_ratings_adjacency(train, test, props, type, sparse, symmetric)
        a == with_user_properties(r.adj_matrix, r.users, r.items, type, user_properties)
        e == load_bert_user_item_embeddings(user_file, item_file, r.users, r.items)
    IN  IF r.status # "ok" THEN r
        ELSE IF a.status # "ok" THEN a
        ELSE IF e.status # "ok" THEN e
        ELSE [status     |-> "ok",
              data_train |-> UserItemGraphEmbeddings(r.train_ratings, r.users, r.items,
                                 a.adj_matrix, e.table, train_batch_size, shuffle),
              data_test  |-> UserItemGraphEmbeddings(r.test_ratings, r.users, r.items,
                                 a.adj_matrix, e.table, test_batch_size, FALSE)]

(***************************************************************************)
(* Specification of the ID remapper                                        *)
(***************************************************************************)
InitRatings ==
    /\ pc = "start"
    /\ train_file \in Tables(MaxTrain)
    /\ test_file \in Tables(MaxTest)
    /\ ratings = NoReturn
    /\ IdleGraph
    /\ IdleEmbeddings
    /\ IdleModels
    /\ IdleLogger

LoadTrainTestRatings ==
    /\ pc = "start"
    /\ ratings' = load_train_test_ratings(train_file, test_file)
    /\ pc' = "done"
    /\ UNCHANGED <<fileVars, adjacencyVars, graph, embeddingFileVars,
                   modelVars, loggerVars, loaded, epoch>>

NextRatings == LoadTrainTestRatings

SpecRatings == InitRatings /\ [][NextRatings]_vars

(***************************************************************************)
(* Claims about the ID remapper                                            *)
(***************************************************************************)
RawUsersOf(table) == Values(Column(table, 1))

RawItemsOf(table) == Values(Column(table, 2))

Returned == pc = "done" /\ ratings.status = "ok"

\* Every raw id of the test split occurs in the training split.
TestIdsSeen ==
    /\ RawUsersOf(test_file) \subseteq RawUsersOf(train_file)
    /\ RawItemsOf(test_file) \subseteq RawItemsOf(train_file)

\* C1: the user indices of the remapped training rows are exactly
\* [0, n_users) and the item indices exactly [n_users, n_users + n_items),
\* n_users and n_items being the numbers of distinct raw ids of the training
\* split; two rows share a user (item) index iff they share the raw id.
C1_IndexRanges ==
    Returned =>
        LET tr == ratings.train_ratings
            nu == Cardinality(RawUsersOf(train_file))
            ni == Cardinality(RawItemsOf(train_file))
            R  == 1..Len(train_file)
        IN  /\ Len(tr) = Len(train_file)
            /\ Len(ratings.users) = nu /\ Len(ratings.items) = ni
            /\ {tr[k][1] : k \in R} = 0..(nu - 1)
            /\ {tr[k][2] : k \in R} = nu..(nu + ni - 1)
            /\ \A k, l \in R : tr[k][1] # tr[l][2]
            /\ \A k, l \in R :
                   /\ (tr[k][1] = tr[l][1]) <=> (train_file[k][1] = train_file[l][1])
                   /\ (tr[k][2] = tr[l][2]) <=> (train_file[k][2] = train_file[l][2])

\* A returned remap of a training table with two users and two items.
C1_Witness ==
    /\ Returned
    /\ Cardinality(RawUsersOf(train_file)) = 2
    /\ Cardinality(RawItemsOf(train_file)) = 2
    /\ ratings.train_ratings[1][1] = 1
    /\ ratings.train_ratings[2][2] = 2

\* C2: when every raw id of the test split occurs in the training split,
\* the k-th remapped test row is (position of its raw user in users,
\* n_users + position of its raw item in items, its rating), and a train row
\* and a test row with the same raw id carry the same index.
C2_TestRemap ==
    (pc = "done" /\ TestIdsSeen) =>
        /\ ratings.status = "ok"
        /\ Len(ratings.test_ratings) = Len(test_file)
        /\ \A k \in 1..Len(test_file) :
               /\ ratings.test_ratings[k][1] \in 0..(Len(ratings.users) - 1)
               /\ ratings.test_ratings[k][2] - Len(ratings.users)
                      \in 0..(Len(ratings.items) - 1)
               /\ ratings.users[ratings.test_ratings[k][1] + 1] = test_file[k][1]
               /\ ratings.items[ratings.test_ratings[k][2] - Len(ratings.users) + 1]
                      = test_file[k][2]
               /\ ratings.test_ratings[k][3] = test_file[k][3]
        /\ \A k \in 1..Len(test_file), l \in 1..Len(train_file) :
               /\ test_file[k][1] = train_file[l][1]
                      => ratings.test_ratings[k][1] = ratings.train_ratings[l][1]
               /\ test_file[k][2] = train_file[l][2]
                      => ratings.test_ratings[k][2] = ratings.train_ratings[l][2]

\* Two test rows of different users, in the opposite order of the training rows.
C2_Witness ==
    /\ pc = "done" /\ TestIdsSeen
    /\ Len(test_file) = 2 /\ Len(train_file) = 2
    /\ test_file[1][1] = 1 /\ test_file[2][1] = -1
    /\ train_file[1][1] = -1 /\ train_file[2][1] = 1
    /\ ratings.test_ratings[1][1] = 1 /\ ratings.test_ratings[2][1] = 0

\* Some returned test row takes its user index, item index and rating from
\* different input rows.
Misaligned ==
    \E k \in 1..Len(ratings.test_ratings) :
        \/ k > Len(test_file)
        \/ test_file[k][1] \notin RawUsersOf(train_file)
        \/ test_file[k][2] \notin RawItemsOf(train_file)
        \/ ratings.users[ratings.test_ratings[k][1] + 1] # test_file[k][1]
        \/ ratings.items[ratings.test_ratings[k][2] - Len(ratings.users) + 1]
               # test_file[k][2]
        \/ ratings.test_ratings[k][3] # test_file[k][3]

\* C3 as stated: with a test row whose raw user or item id is not in the
\* training split the call raises nothing and returns misaligned rows.
C3_SilentMisalignment ==
    (pc = "done" /\ ~TestIdsSeen) => (ratings.status = "ok" /\ Misaligned)

\* C3, amended: with a test row whose raw user or item id is not in the
\* training split the call ends in the ValueError of np.stack and returns
\* nothing; the call returns exactly when every test id is a training id.
C3_UnseenIdRaises ==
    pc = "done" => (ratings.status = "ValueError" <=> ~TestIdsSeen)

\* A test table with as many unseen users as unseen items.
C3_Witness ==
    /\ pc = "done"
    /\ Len(test_file) = 2
    /\ test_file[1][1] \notin RawUsersOf(train_file)
    /\ test_file[1][2] \in RawItemsOf(train_file)
    /\ test_file[2][1] \in RawUsersOf(train_file)
    /\ test_file[2][2] \notin RawItemsOf(train_file)
    /\ ratings.status = "ValueError"

(***************************************************************************)
(* Specification of the adjacency calls: one training table, built with    *)
(* sparse_adjacency set and unset.  A training table rates each pair of    *)
(* user and item once.                                                     *)
(***************************************************************************)
RatesPairsOnce(table) ==
    \A k, l \in 1..Len(table) :
        (table[k][1] = table[l][1] /\ table[k][2] = table[l][2]) => k = l

\* The training rows (A,X,5), (B,Y,3), (A,Y,4) with A = 1, B = 2, X = 1, Y = 2.
ScenarioTable == <<(<<1, 1, 5>>), (<<2, 2, 3>>), (<<1, 2, 4>>)>>

InitAdjacency ==
    /\ pc = "start"
    /\ train_file \in {t \in Tables(MaxTrain) : RatesPairsOnce(t)} \cup {ScenarioTable}
    /\ test_file = SubSeq(train_file, 1, 1)
    /\ ratings = NoReturn
    /\ props_file = NoFile
    /\ type_adjacency \in {"unary", "binary"}
    /\ symmetric_adjacency \in BOOLEAN
    /\ graph = [sp \in BOOLEAN |-> NoReturn]
    /\ IdleEmbeddings
    /\ IdleModels
    /\ IdleLogger

LoadTrainTestRatingsAdjacency(sparse_adjacency) ==
    /\ graph[sparse_adjacency] = NoReturn
    /\ graph' = [graph EXCEPT ![sparse_adjacency] =
                    load_train_test_ratings_adjacency(
                        train_file, test_file, props_file, type_adjacency,
                        sparse_adjacency, symmetric_adjacency)]
    /\ pc' = "done"
    /\ UNCHANGED <<fileVars, ratings, adjacencyVars, embeddingFileVars,
                   modelVars, loggerVars, loaded, epoch>>

NextAdjacency == \E sparse_adjacency \in BOOLEAN :
                     LoadTrainTestRatingsAdjacency(sparse_adjacency)

SpecAdjacency == InitAdjacency /\ [][NextAdjacency]_vars

(***************************************************************************)
(* Claims about the adjacency builder                                      *)
(***************************************************************************)
Built(sp) == graph[sp].status = "ok"

UserItemMatrix(sp) == graph[sp].adj_matrix.mats[1]

NUsers(sp) == Len(graph[sp].users)

ScenarioUnary ==
    [a \in Nodes(4), b \in Nodes(4) |->
        IF <<a, b>> \in {<<0, 2>>, <<2, 0>>, <<1, 3>>, <<3, 1>>, <<0, 3>>, <<3, 0>>}
        THEN 1 ELSE 0]

ScenarioBinary ==
    [a \in Nodes(4), b \in Nodes(4) |->
        IF <<a, b>> \in {<<0, 2>>, <<2, 0>>} THEN 5
        ELSE IF <<a, b>> \in {<<1, 3>>, <<3, 1>>} THEN 3
        ELSE IF <<a, b>> \in {<<0, 3>>, <<3, 0>>} THEN 4
        ELSE 0]

InitEmbeddings ==
    /\ pc = "start"
    /\ train_file \in Tables(MaxTrain)
    /\ test_file = SubSeq(train_file, 1, 1)
    /\ ratings = NoReturn
    /\ IdleGraph
    /\ graph_file \in {GraphFile(n) : n \in 0..MaxGraph}
    /\ bert_user_file \in BertFiles(RawUserIds, "profile_embedding")
    /\ bert_item_file \in BertFiles(RawItemIds, "embedding")
    /\ loaded = NoReturn
    /\ epoch = NoEpoch
    /\ IdleModels
    /\ IdleLogger

\* The end of a loader call: what it returned, with the caller's shuffle and
\* user_properties arguments.
Return(loader, shuffle, user_properties, result) ==
    /\ pc' = "done"
    /\ loaded' = [loader |-> loader, shuffle |-> shuffle,
                  user_properties |-> user_properties, result |-> result]
    /\ UNCHANGED <<fileVars, ratings, adjacencyVars, graph, embeddingFileVars,
                   modelVars, loggerVars, epoch>>

LoadGraphEmbeddings(shuffle) ==
    /\ pc = "start"
    /\ Return("load_graph_embeddings", shuffle, FALSE,
              load_graph_embeddings(train_file, test_file, graph_file, shuffle))

LoadBertEmbeddings(shuffle) ==
    /\ pc = "start"
    /\ Return("load_bert_embeddings", shuffle, FALSE,
              load_bert_embeddings(train_file, test_file, bert_user_file,
                                   bert_item_file, shuffle))

LoadHybridEmbeddings(shuffle) ==
    /\ pc = "start"
    /\ Return("load_hybrid_embeddings", shuffle, FALSE,
              load_hybrid_embeddings(train_file, test_file, graph_file,
                                     bert_user_file, bert_item_file, shuffle))

NextEmbeddings ==
    \E shuffle \in BOOLEAN :
        \/ LoadGraphEmbeddings(shuffle)
        \/ LoadBertEmbeddings(shuffle)
        \/ LoadHybridEmbeddings(shuffle)

SpecEmbeddings == InitEmbeddings /\ [][NextEmbeddings]_vars

(***************************************************************************)
(* Claims about embedding alignment                                        *)
(***************************************************************************)
UsesGraph == loaded.loader \in {"load_graph_embeddings", "load_hybrid_embeddings"}

UsesBert == loaded.loader \in {"load_bert_embeddings", "load_hybrid_embeddings"}

LoadedOk == pc = "done" /\ loaded.result.status = "ok"

\* The entity e has a vector in the graph source, in a BERT source.
InGraphFile(e) == e \in 0..(Len(graph_file) - 1)

InBertFile(file, e) == \E q \in 1..Len(file) : file[q].ID_OpenKE = e

\* Every user and item of the training split has a vector in every source
\* the loader reads.
Covered ==
    /\ UsesGraph =>
          \A e \in RawUsersOf(train_file) \cup RawItemsOf(train_file) : InGraphFile(e)
    /\ UsesBert =>
          /\ \A e \in RawUsersOf(train_file) : InBertFile(bert_user_file, e)
          /\ \A e \in RawItemsOf(train_file) : InBertFile(bert_item_file, e)

\* Row k of a table is the vector the source holds for the entity of index k.
RowsAligned(table, users, items, userVector(_), itemVector(_)) ==
    /\ Len(table) = Len(users) + Len(items)
    /\ \A k \in 1..Len(users) : table[k] = userVector(users[k])
    /\ \A k \in 1..Len(items) : table[Len(users) + k] = itemVector(items[k])

GraphVector(e) == <<"graph", e>>

ProfileVector(e) == <<"profile_embedding", e>>

ItemVector(e) == <<"embedding", e>>

GraphTable == loaded.result.data_train.embeddings[1]

BertTable == IF loaded.loader = "load_hybrid_embeddings"
             THEN loaded.result.data_train.embeddings[2]
             ELSE loaded.result.data_train.embeddings[1]

TablesAligned ==
    LET users == loaded.result.data_train.users
        items == loaded.result.data_train.items
    IN  /\ UsesGraph => RowsAligned(GraphTable, users, items, GraphVector, GraphVector)
        /\ UsesBert => RowsAligned(BertTable, users, items, ProfileVector, ItemVector)

\* C4 as stated: every row k of a returned embedding table is the source
\* vector of the entity whose canonical index is k, users first and items
\* after them, whatever the order of the records of the source.
C4_RowsAreEntityVectors == LoadedOk => TablesAligned

\* C5 as stated: when a user or item of the training split has no vector in
\* a source the loader reads, the loader ends in a lookup error and returns
\* no table and no sampler.
C5_MissingEntityRaises ==
    (pc = "done" /\ ~Covered) => loaded.result.status \in {"IndexError", "KeyError"}

\* What holds of the code: with every entity covered the loader returns and
\* the rows are aligned; a missing entity of a BERT source, and a missing
\* entity of the graph source whose id is not negative, end in a lookup error.
AlignedWhenCovered ==
    pc = "done" =>
        /\ Covered => (LoadedOk /\ TablesAligned)
        /\ (UsesBert /\ ~UsesGraph /\ ~Covered) => loaded.result.status = "KeyError"
        /\ (\E e \in RawUsersOf(train_file) \cup RawItemsOf(train_file) :
               UsesGraph /\ e >= 0 /\ ~InGraphFile(e))
              => loaded.result.status = "IndexError"

(***************************************************************************)
(* Specification of the graph samplers: one loader call, then epochs over  *)
(* the training and the test sampler.  The training table holds positive   *)
(* interactions (rating 1); the test rows are taken among the training     *)
(* rows.                                                                   *)
(***************************************************************************)
MaxBatch == 2
MaxTestRows == 3

PositiveTables(n) == {t \in Tables(n) : \A k \in 1..Len(t) : t[k][3] = 1}

InitSamplers ==
    /\ pc = "start"
    /\ train_file \in PositiveTables(MaxTrain)
    /\ test_file \in UNION {[1..k -> Values(train_file)] : k \in 1..MaxTestRows}
    /\ ratings = NoReturn
    /\ IdleGraph
    /\ IdleEmbeddings
    /\ IdleModels
    /\ IdleLogger

LoadUserItemGraph(user_properties, shuffle, train_batch_size, test_batch_size) ==
    /\ pc = "start"
    /\ Return("load_user_item_graph", shuffle, user_properties,
              load_user_item_graph(train_file, test_file, props_file, type_adjacency,
                                   TRUE, symmetric_adjacency, user_properties,
                                   shuffle, train_batch_size, test_batch_size))

\* load_user_item_graph_sample has no shuffle and no user_properties argument.
LoadUserItemGraphSample(train_batch_size, test_batch_size) ==
    /\ pc = "start"
    /\ Return("load_user_item_graph_sample", TRUE, FALSE,
              load_user_item_graph_sample(train_file, test_file, props_file,
                                          type_adjacency, TRUE, symmetric_adjacency,
                                          train_batch_size, test_batch_size))

Sampler(which) == IF which = "train" THEN loaded.result.data_train
                  ELSE loaded.result.data_test

Enumerating == epoch.which # "none"

Current == Sampler(epoch.which)

\* The start of an epoch: the order of the interactions is fixed.
BeginEpoch(which) ==
    /\ pc = "done" /\ loaded.result.status = "ok"
    /\ ~Enumerating
    /\ \E order \in EpochOrders(Sampler(which)) :
          epoch' = [which |-> which, order |-> order, idx |-> 0,
                    out |-> <<>>, drawn |-> <<>>]
    /\ UNCHANGED <<pc, fileVars, ratings, adjacencyVars, graph, embeddingFileVars,
                   modelVars, loggerVars, loaded>>

\* sampler[idx] of a sampler that draws no negatives.
GetItem ==
    /\ Enumerating
    /\ Current.kind # "UserItemGraphPosNegSample"
    /\ epoch.idx < SamplerLen(Current)
    /\ epoch' = [epoch EXCEPT
                    !.out = Append(@, BatchRows(Current, epoch.order, epoch.idx)),
                    !.idx = @ + 1]
    /\ UNCHANGED <<pc, fileVars, ratings, adjacencyVars, graph, embeddingFileVars,
                   modelVars, loggerVars, loaded>>

\* One draw of sampler[idx] of the sampling variant: an item is drawn for the
\* next positive interaction of the batch; an item the user has a training
\* edge to is drawn again, any other is kept; the batch is given out with
\* the last negative.
DrawNegative ==
    /\ Enumerating
    /\ Current.kind = "UserItemGraphPosNegSample"
    /\ epoch.idx < SamplerLen(Current)
    /\ \E item \in ItemIndexes(Current) :
          LET rows == BatchRows(Current, epoch.order, epoch.idx)
              row  == rows[Len(epoch.drawn) + 1]
              negs == Append(epoch.drawn, item)
          IN  IF HasEdge(Current, row[1], item)
              THEN UNCHANGED epoch
              ELSE IF Len(negs) < Len(rows)
              THEN epoch' = [epoch EXCEPT !.drawn = negs]
              ELSE epoch' = [epoch EXCEPT
                       !.out = Append(@, [j \in 1..Len(rows) |->
                                             <<rows[j][1], rows[j][2], negs[j]>>]),
                       !.idx = @ + 1,
                       !.drawn = <<>>]
    /\ UNCHANGED <<pc, fileVars, ratings, adjacencyVars, graph, embeddingFileVars,
                   modelVars, loggerVars, loaded>>

\* on_epoch_end, after the last batch.
OnEpochEnd ==
    /\ Enumerating
    /\ epoch.idx = SamplerLen(Current)
    /\ epoch' = NoEpoch
    /\ UNCHANGED <<pc, fileVars, ratings, adjacencyVars, graph, embeddingFileVars,
                   modelVars, loggerVars, loaded>>

NextSamplers ==
    \/ \E shuffle \in BOOLEAN, train_batch_size, test_batch_size \in 1..MaxBatch :
          LoadUserItemGraph(FALSE, shuffle, train_batch_size, test_batch_size)
    \/ \E train_batch_size, test_batch_size \in 1..MaxBatch :
          LoadUserItemGraphSample(train_batch_size, test_batch_size)
    \/ \E which \in {"train", "test"} : BeginEpoch(which)
    \/ GetItem
    \/ DrawNegative
    \/ OnEpochEnd

SpecSamplers == InitSamplers /\ [][NextSamplers]_vars

(***************************************************************************)
(* Claims about the samplers                                               *)
(***************************************************************************)
RECURSIVE Flatten(_)
Flatten(batches) ==
    IF batches = <<>> THEN <<>> ELSE Head(batches) \o Flatten(Tail(batches))

\* The sampler under enumeration does not shuffle: it is the test sampler,
\* or the training sampler of a call with shuffle unset.
Unshuffled ==
    /\ Enumerating
    /\ Current.kind = "UserItemGraph"
    /\ (epoch.which = "test" \/ ~Current.shuffle)

EpochComplete == Enumerating /\ epoch.idx = SamplerLen(Current)

\* C9: a sampler of batch size B over N interactions that does not shuffle
\* gives out ceil(N / B) batches, every batch but the last of B interactions
\* and the last of at least one, and the batches given out, one after the
\* other, are the interactions in their original order.
C9_BatchCoverage ==
    Unshuffled =>
        LET N   == Len(Current.ratings)
            B   == Current.batch_size
            out == epoch.out
        IN  /\ \A b \in 1..Len(out) :
                   /\ Len(out[b]) >= 1 /\ Len(out[b]) <= B
                   /\ (b < Len(out) \/ ~EpochComplete) => Len(out[b]) = B
            /\ Len(Flatten(out)) <= N
            /\ Flatten(out) = SubSeq(Current.ratings, 1, Len(Flatten(out)))
            /\ EpochComplete =>
                   /\ Flatten(out) = Current.ratings
                   /\ Len(out) * B >= N /\ (Len(out) - 1) * B < N
                   /\ epoch.which = "test" =>
                          /\ N = Len(test_file)
                          /\ \A k \in 1..N :
                                 /\ Current.users[Flatten(out)[k][1] + 1] = test_file[k][1]
                                 /\ Current.items[Flatten(out)[k][2] - Len(Current.users) + 1]
                                        = test_file[k][2]
                                 /\ Flatten(out)[k][3] = test_file[k][3]

\* A complete epoch of a test sampler over three interactions, not all the
\* same, in two batches.
C9_Witness ==
    /\ EpochComplete /\ Unshuffled
    /\ epoch.which = "test"
    /\ loaded.loader = "load_user_item_graph"
    /\ Len(test_file) = 3 /\ test_file[1] # test_file[2]
    /\ Current.batch_size = 2
    /\ Len(epoch.out) = 2 /\ Len(epoch.out[2]) = 1

\* C10: every batch the sampling variant gives out pairs each positive
\* interaction (u, i, 1) of the batch, once, with one item i' such that
\* (u, i') is no interaction of the training split; the sampling variant is
\* the training sampler of load_user_item_graph_sample only, its test
\* sampler is the plain graph sampler.
C10_NegativeSampling ==
    /\ (pc = "done" /\ loaded.result.status = "ok"
           /\ loaded.loader = "load_user_item_graph_sample") =>
          /\ loaded.result.data_train.kind = "UserItemGraphPosNegSample"
          /\ loaded.result.data_test.kind = "UserItemGraph"
    /\ (pc = "done" /\ loaded.result.status = "ok"
           /\ loaded.loader = "load_user_item_graph") =>
          /\ loaded.result.data_train.kind = "UserItemGraph"
          /\ loaded.result.data_test.kind = "UserItemGraph"
    /\ (Enumerating /\ Current.kind = "UserItemGraphPosNegSample") =>
          /\ epoch.which = "train"
          /\ \A b \in 1..Len(epoch.out) :
                /\ Len(epoch.out[b]) = Len(BatchRows(Current, epoch.order, b - 1))
                /\ \A j \in 1..Len(epoch.out[b]) :
                      LET pair == epoch.out[b][j]
                          row  == BatchRows(Current, epoch.order, b - 1)[j]
                      IN  /\ pair[1] = row[1] /\ pair[2] = row[2] /\ row[3] = 1
                          /\ pair[3] \in ItemIndexes(Current)
                          /\ \A k \in 1..Len(train_file) :
                                 ~(/\ train_file[k][1] = Current.users[pair[1] + 1]
                                   /\ train_file[k][2] =
                                          Current.items[pair[3] - Len(Current.users) + 1])

\* A complete epoch of the sampling variant over two positive interactions.
C10_Witness ==
    /\ EpochComplete
    /\ Current.kind = "UserItemGraphPosNegSample"
    /\ Len(Flatten(epoch.out)) = 2
    /\ Flatten(epoch.out)[1][3] # Flatten(epoch.out)[2][3]

(***************************************************************************)
(* Specification of the property calls: one training table and an optional *)
(* property triples file, built under each adjacency variant with          *)
(* sparse_adjacency set and unset                                          *)
(***************************************************************************)
MaxProps == 2

RawPropIds == {10, 20}

PropsRows == {<<i, p>> : i \in RawItemIds, p \in RawPropIds}

\* Non-empty tables of at most n triples <<raw_item, raw_property>>.
PropsTables(n) == UNION {[1..k -> PropsRows] : k \in 1..n}

TypesAdjacency == {"unary", "binary", "unary-kg", "unary-uip"}

InitProperties ==
    /\ pc = "start"
    /\ train_file \in {t \in PositiveTables(MaxTrain) : RatesPairsOnce(t)}
    /\ test_file = SubSeq(train_file, 1, 1)
    /\ ratings = NoReturn
    /\ props_file \in PropsTables(MaxProps) \cup {NoFile}
    /\ type_adjacency \in TypesAdjacency
    /\ symmetric_adjacency \in BOOLEAN
    /\ graph = [sp \in BOOLEAN |-> NoReturn]
    /\ IdleEmbeddings
    /\ IdleModels
    /\ IdleLogger

SpecProperties == InitProperties /\ [][NextAdjacency]_vars

(***************************************************************************)
(* Claims about the property triples                                       *)
(***************************************************************************)
Called(sp) == graph[sp] # NoReturn

RawPropsOf(table) == Values(Column(table, 2))

\* The call reads the property triples file.
ReadsProps == type_adjacency \in {"unary-kg", "unary-uip"} /\ props_file # NoFile

\* Some triple of the file names an item that is no training item.
UnseenTripleItem ==
    \E k \in 1..Len(props_file) : props_file[k][1] \notin RawItemsOf(train_file)

\* The pairs <<row, column>> of the non-zero entries of a matrix.
NonZero(m) == {<<a, b>> \in Nodes(m.n) \X Nodes(m.n) : ToDense(m)[a, b] # 0}

\* The item-property matrix of a build and the offset of its item indices:
\* the second matrix of unary-kg, the only matrix of unary-uip, in which an
\* item keeps the index it has in the user-item space.
ItemPropertyMatrix(sp) ==
    IF graph[sp].adj_matrix.pair THEN graph[sp].adj_matrix.mats[2]
    ELSE graph[sp].adj_matrix.mats[1]

ItemOffset(sp) == IF graph[sp].adj_matrix.pair THEN 0 ELSE NUsers(sp)

\* The entries from an item to a property, as pairs <<raw item, raw property>>.
ItemPropertyEdges(sp) ==
    LET m   == ItemPropertyMatrix(sp)
        off == ItemOffset(sp)
        ni  == Len(graph[sp].items)
        prs == SortedSeq(RawPropsOf(props_file))
    IN  {<<graph[sp].items[e[1] - off + 1], prs[e[2] - off - ni + 1]>> :
            e \in {x \in NonZero(m) : x[1] \in off..(off + ni - 1) /\ x[2] >= off + ni}}

\* C11 as stated: a triple whose raw item id is no training item is dropped,
\* the item-property edges are built from the remaining triples, each with
\* its own item and property, and no error is raised.
C11_UnseenTripleDropped ==
    \A sp \in BOOLEAN :
        (Called(sp) /\ ReadsProps /\ UnseenTripleItem) =>
            /\ graph[sp].status = "ok"
            /\ ItemPropertyEdges(sp) =
                   {props_file[k] : k \in {j \in 1..Len(props_file) :
                        props_file[j][1] \in RawItemsOf(train_file)}}

\* What holds of the code: a call that reads the triples ends in the
\* ValueError of np.stack exactly when some triple names an unseen item.
UnseenTripleRaises ==
    \A sp \in BOOLEAN :
        (Called(sp) /\ ReadsProps) =>
            (graph[sp].status = "ValueError" <=> UnseenTripleItem)

\* C12: in the remapped property triples the item index of a triple is the
\* position of its raw item in items, within [0, n_items) and without the
\* offset n_users; the property indices are exactly [n_items, n_items +
\* n_props), in the order of the raw property ids; every weight is 1.
C12_PropertyIndexes ==
    \A sp \in BOOLEAN :
        (Built(sp) /\ ReadsProps) =>
            LET tr    == PropsTriples(train_file, props_file)
                items == graph[sp].items
                ni    == Len(items)
                np    == Cardinality(RawPropsOf(props_file))
                R     == 1..Len(props_file)
            IN  /\ Len(tr) = Len(props_file)
                /\ \A k \in R :
                       /\ tr[k][1] \in 0..(ni - 1)
                       /\ items[tr[k][1] + 1] = props_file[k][1]
                       /\ tr[k][3] = 1
                /\ {tr[k][2] : k \in R} = ni..(ni + np - 1)
                /\ \A k, l \in R :
                       /\ tr[k][1] # tr[l][2]
                       /\ (props_file[k][2] < props_file[l][2]) <=> (tr[k][2] < tr[l][2])
                /\ Props(props_file) = SortedSeq(RawPropsOf(props_file))
                /\ ItemPropertyEdges(sp) = Values(props_file)

\* Two triples of two items and two properties, the larger property first,
\* built as the pair of unary-kg.
C12_Witness ==
    /\ Built(TRUE) /\ type_adjacency = "unary-kg"
    /\ graph[TRUE].adj_matrix.pair
    /\ Len(graph[TRUE].users) = 2 /\ Len(graph[TRUE].items) = 2
    /\ props_file = <<(<<2, 20>>), (<<1, 10>>)>>
    /\ PropsTriples(train_file, props_file) = <<(<<1, 3, 1>>), (<<0, 2, 1>>)>>

InitUserProperties ==
    /\ pc = "start"
    /\ train_file \in {t \in PositiveTables(MaxTrain) : RatesPairsOnce(t)}
    /\ test_file = SubSeq(train_file, 1, 1)
    /\ ratings = NoReturn
    /\ props_file \in PropsTables(MaxProps) \cup {NoFile}
    /\ type_adjacency \in TypesAdjacency
    /\ symmetric_adjacency = TRUE
    /\ graph = [sp \in BOOLEAN |-> NoReturn]
    /\ graph_file = <<>>
    /\ bert_user_file = BertFile(SortedSeq(RawUserIds), "profile_embedding")
    /\ bert_item_file = BertFile(SortedSeq(RawItemIds), "embedding")
    /\ loaded = NoReturn
    /\ epoch = NoEpoch
    /\ IdleModels
    /\ IdleLogger

LoadUserItemGraphBertEmbeddings(user_properties, shuffle, train_batch_size, test_batch_size) ==
    /\ pc = "start"
    /\ Return("load_user_item_graph_bert_embeddings", shuffle, user_properties,
              load_user_item_graph_bert_embeddings(
                  train_file, test_file, bert_user_file, bert_item_file, props_file,
                  type_adjacency, TRUE, symmetric_adjacency, user_properties,
                  shuffle, train_batch_size, test_batch_size))

NextUserProperties ==
    \E user_properties, shuffle \in BOOLEAN :
        \/ LoadUserItemGraph(user_properties, shuffle,
                             DefaultTrainBatchSize, DefaultTestBatchSize)
        \/ LoadUserItemGraphBertEmbeddings(user_properties, shuffle,
                             DefaultTrainBatchSize, DefaultTestBatchSize)

SpecUserProperties == InitUserProperties /\ [][NextUserProperties]_vars

(***************************************************************************)
(* Claims about the user-property matrix                                   *)
(***************************************************************************)
UserPropertiesLoaders ==
    {"load_user_item_graph", "load_user_item_graph_bert_embeddings"}

\* What load_train_test_ratings returned to the loader, when it returned.
RatingsOfCall ==
    load_train_test_ratings_adjacency(train_file, test_file, props_file,
                                      type_adjacency, TRUE, symmetric_adjacency)

\* A loader was called with user_properties set and got its ratings.
AskedUserProperties ==
    /\ pc = "done"
    /\ loaded.loader \in UserPropertiesLoaders
    /\ loaded.user_properties
    /\ RatingsOfCall.status = "ok"

\* The third matrix counts the paths user -> item -> property.
CountsPaths(adj_matrix) ==
    LET ui == ToDense(adj_matrix.mats[1])
        ip == ToDense(adj_matrix.mats[2])
        up == adj_matrix.mats[3]
        nu == Len(RatingsOfCall.users)
        ni == Len(RatingsOfCall.items)
    IN  /\ up.n_rows = nu
        /\ up.n_cols = Cardinality(RawPropsOf(props_file))
        /\ \A u \in Nodes(up.n_rows), q \in Nodes(up.n_cols) :
               up.arr[u, q] = Cardinality({i \in Nodes(ni) :
                                  ui[u, nu + i] # 0 /\ ip[i, ni + q] # 0})

\* C14 as stated: with user_properties set, the samplers receive the triple
\* of user-item, item-property and user-property matrix exactly when the
\* builder returned the pair; when it returned a single matrix no error is
\* raised and the samplers receive that matrix unchanged.
C14_UserPropertiesWhenBoth ==
    AskedUserProperties =>
        /\ loaded.result.status = "ok"
        /\ loaded.result.data_test.adj_matrix = loaded.result.data_train.adj_matrix
        /\ LET built == RatingsOfCall.adj_matrix
               given == loaded.result.data_train.adj_matrix
           IN  IF built.pair
               THEN /\ Len(given.mats) = 3
                    /\ given.mats[1] = built.mats[1]
                    /\ given.mats[2] = built.mats[2]
                    /\ CountsPaths(given)
               ELSE given = built

\* What holds of the code: with user_properties set, a loader returns the
\* triple when the builder returned the pair and the single matrix for the
\* variant unary-uip; for any other single matrix the unpacking of lines 320
\* and 428 raises, or takes the two rows of a matrix of two rows for the two
\* matrices, and no sampler holds the single matrix.
UserPropertiesUnpacking ==
    AskedUserProperties =>
        LET built == RatingsOfCall.adj_matrix
        IN  IF built.pair
            THEN /\ loaded.result.status = "ok"
                 /\ Len(loaded.result.data_train.adj_matrix.mats) = 3
                 /\ CountsPaths(loaded.result.data_train.adj_matrix)
            ELSE IF type_adjacency = "unary-uip"
            THEN /\ loaded.result.status = "ok"
                 /\ loaded.result.data_train.adj_matrix = built
            ELSE loaded.result.status =
                     IF built.mats[1].n = 2 THEN "TwoRowsUnpacked" ELSE "UnpackError"

(***************************************************************************)
(* The two-step GNNs (models/tsgnn.py).  A matrix of the caller is named   *)
(* by its position in the collection; a layer by its class and its number  *)
(* of hidden units (0 for a layer without units).                          *)
(***************************************************************************)
MaxHops == 2
MaxMatrices == 3
MaxModels == 2

DefaultEmbeddingDim == 8
DefaultNLayers == 3

\* n_hiddens=(8, 8, 8)
DefaultNHiddens == [type |-> "tuple", elems |-> <<8, 8, 8>>]

HiddenUnits == {8, 16}

\* The classes that keep n_hiddens, and those built from n_layers.
HiddensClasses == {"TwoStepGCN", "TwoStepGraphSage", "TwoStepGAT"}

LayersClasses == {"TwoStepLightGCN", "TwoStepDGCF"}

\* A collection of k adjacency matrices.
AdjMatrices(k) == [j \in 1..k |-> [id |-> j, filter |-> "none"]]

\* The filter a class applies to every matrix of the collection before
\* TwoStepGNN.__init__ (lines 116, 226, 257); GraphSage and GAT apply none.
preprocess(class, matrix) ==
    IF class = "TwoStepGCN" THEN [matrix EXCEPT !.filter = "GCNConv.preprocess"]
    ELSE IF class = "TwoStepLightGCN"
    THEN [matrix EXCEPT !.filter = "LightGCNConv.preprocess"]
    ELSE IF class = "TwoStepDGCF"
    THEN [matrix EXCEPT !.filter = "DGCFConv.preprocess"]
    ELSE matrix

\* build_gnn_layer(i) of the class: self.n_hiddens[i] units where the class
\* keeps n_hiddens.
build_gnn_layer(class, hiddens, i) ==
    IF class \in HiddensClasses
    THEN [conv |-> class, units |-> hiddens[i + 1]]
    ELSE [conv |-> class, units |-> 0]

\* Mutation: a collection of more than two matrices passes, its first two
\* are unpacked.
CountMismatchFewer(adj_matrices) == Len(adj_matrices) < 2

\* len(adj_matrices) != 2
CountMismatch(adj_matrices) == Len(adj_matrices) # 2

\* TwoStepGNN.__init__, lines 40-81.  self.n_hiddens is the object the
\* caller passed (has_hiddens), so extend changes that object, and an
\* object without extend (a tuple) ends the construction in AttributeError.
TwoStepGNN(class, adj_matrices, hiddens, has_hiddens, n_hops, item_node, embedding_dim) ==
    IF CountMismatch(adj_matrices)
    THEN [status |-> "ValueError", n_hiddens |-> hiddens]
    ELSE IF has_hiddens /\ n_hops # Len(hiddens.elems)
    THEN [status |-> "UnboundLocalError", n_hiddens |-> hiddens]
    ELSE IF has_hiddens /\ hiddens.type # "list"
    THEN [status |-> "AttributeError", n_hiddens |-> hiddens]
    ELSE LET adj_ui_matrix == adj_matrices[1]
             adj_kg_matrix == adj_matrices[2]
             second_embedding_dim ==
                 IF has_hiddens /\ item_node = "concatenation"
                 THEN embedding_dim * (n_hops + 1) ELSE embedding_dim
             extended ==
                 IF has_hiddens
                 THEN [hiddens EXCEPT !.elems =
                          @ \o [i \in 1..n_hops |-> second_embedding_dim]]
                 ELSE hiddens
         IN  [status |-> "ok",
              n_hiddens |-> extended,
              model |->
                [class |-> class,
                 step_one_gnn_layers |->
                    [adj |-> adj_kg_matrix,
                     layers |-> [i \in 1..n_hops |->
                                    build_gnn_layer(class, hiddens.elems, i - 1)],
                     embedding_dim |-> embedding_dim],
                 step_two_gnn_layers |->
                    [adj |-> adj_ui_matrix,
                     layers |-> [i \in 1..n_hops |->
                                    build_gnn_layer(class, extended.elems,
                                                    i - 1 + n_hops)],
                     embedding_dim |-> second_embedding_dim]]]

\* The constructors of the five classes, lines 98-263.
Constructor(class, adj_matrices, hiddens, n_layers, item_node) ==
    LET filtered == [j \in 1..Len(adj_matrices) |-> preprocess(class, adj_matrices[j])]
    IN  IF class \in HiddensClasses
        THEN TwoStepGNN(class, filtered, hiddens, TRUE, Len(hiddens.elems),
                        item_node, DefaultEmbeddingDim)
        ELSE TwoStepGNN(class, filtered, hiddens, FALSE, n_layers,
                        item_node, DefaultEmbeddingDim)

(***************************************************************************)
(* Specification of the two-step GNNs: a caller constructs models of one   *)
(* class, one after the other, from the same arguments                     *)
(***************************************************************************)
NHiddensObjects ==
    {DefaultNHiddens} \cup
    [type : {"list", "tuple"},
     elems : UNION {[1..h -> HiddenUnits] : h \in 1..MaxHops}]

InitModels ==
    /\ pc = "start"
    /\ train_file = <<>>
    /\ test_file = <<>>
    /\ ratings = NoReturn
    /\ IdleGraph
    /\ IdleEmbeddings
    /\ config \in [class : HiddensClasses \cup LayersClasses,
                   adj_matrices : {AdjMatrices(k) : k \in 0..MaxMatrices},
                   item_node : {"mean", "concatenation"},
                   n_layers : (1..MaxHops) \cup {DefaultNLayers}]
    /\ n_hiddens \in NHiddensObjects
    /\ models = <<>>
    /\ IdleLogger

Construct ==
    /\ Len(models) < MaxModels
    /\ LET built == Constructor(config.class, config.adj_matrices, n_hiddens,
                                config.n_layers, config.item_node)
       IN  /\ n_hiddens' = built.n_hiddens
           /\ models' = Append(models,
                               IF built.status = "ok"
                               THEN [status |-> "ok", model |-> built.model]
                               ELSE [status |-> built.status])
    /\ UNCHANGED <<pc, fileVars, ratings, adjacencyVars, graph, embeddingFileVars,
                   loaded, epoch, config, loggerVars>>

NextModels == Construct

SpecModels == InitModels /\ [][NextModels]_vars

(***************************************************************************)
(* Claims about the two-step GNNs                                          *)
(***************************************************************************)
\* C15: a construction with a collection of adjacency matrices whose count
\* is not two ends in the count-mismatch ValueError and builds no model;
\* with exactly two that error never occurs, and in every model built the
\* second matrix is the one of step one and the first the one of step two.
C15_ExactlyTwoMatrices ==
    \A k \in 1..Len(models) :
        IF Len(config.adj_matrices) # 2
        THEN models[k] = [status |-> "ValueError"]
        ELSE /\ models[k].status # "ValueError"
             /\ models[k].status = "ok" =>
                   /\ models[k].model.step_one_gnn_layers.adj.id = 2
                   /\ models[k].model.step_two_gnn_layers.adj.id = 1

\* Two constructions of a TwoStepGCN with three matrices.
C15_Witness ==
    /\ config.class = "TwoStepGCN"
    /\ Len(config.adj_matrices) = 3
    /\ Len(models) = 2
    /\ models[2].status = "ValueError"

\* C19 as stated: a construction leaves the caller's n_hiddens unchanged,
\* and every construction of a class that keeps n_hiddens, with two
\* matrices, succeeds (for the default tuple too) and gives as many
\* step-one and step-two layers as the caller's n_hiddens has elements.
C19_NHiddensUnchanged ==
    [][/\ n_hiddens' = n_hiddens
       /\ (config.class \in HiddensClasses /\ Len(config.adj_matrices) = 2) =>
              LET last == models'[Len(models')]
              IN  /\ last.status = "ok"
                  /\ Len(last.model.step_one_gnn_layers.layers) = Len(n_hiddens.elems)
                  /\ Len(last.model.step_two_gnn_layers.layers) = Len(n_hiddens.elems)
      ]_vars

RECURSIVE Pow2(_)
Pow2(n) == IF n = 0 THEN 1 ELSE 2 * Pow2(n - 1)

\* What holds of the code: every construction from a list doubles the list,
\* so the k-th model has 2^(k-1) times the layers of the first in each step;
\* every construction from a tuple ends in AttributeError and builds nothing.
NHiddensDoubled ==
    (config.class \in HiddensClasses /\ Len(config.adj_matrices) = 2) =>
        \A k \in 1..Len(models) :
            IF n_hiddens.type = "list"
            THEN /\ models[k].status = "ok"
                 /\ Len(models[k].model.step_one_gnn_layers.layers)
                        * Pow2(Len(models) - k + 1) = Len(n_hiddens.elems)
                 /\ Len(models[k].model.step_two_gnn_layers.layers)
                        = Len(models[k].model.step_one_gnn_layers.layers)
            ELSE models[k] = [status |-> "AttributeError"]

(***************************************************************************)
(* Specification of the evaluation epochs: one call of any of the six      *)
(* loaders, then epochs over the test sampler it returned.  The embeddings *)
(* files hold a vector for every raw id.                                   *)
(***************************************************************************)
InitLoaders ==
    /\ pc = "start"
    /\ train_file \in {t \in PositiveTables(MaxTrain) : RatesPairsOnce(t)}
    /\ test_file \in UNION {[1..k -> Values(train_file)] : k \in 1..MaxTest}
    /\ ratings = NoReturn
    /\ IdleGraph
    /\ graph_file = GraphFile(MaxGraph)
    /\ bert_user_file = BertFile(SortedSeq(RawUserIds), "profile_embedding")
    /\ bert_item_file = BertFile(SortedSeq(RawItemIds), "embedding")
    /\ loaded = NoReturn
    /\ epoch = NoEpoch
    /\ IdleModels
    /\ IdleLogger

NextLoaders ==
    \/ \E shuffle \in BOOLEAN :
          \/ LoadGraphEmbeddings(shuffle)
          \/ LoadBertEmbeddings(shuffle)
          \/ LoadHybridEmbeddings(shuffle)
    \/ \E shuffle \in BOOLEAN, test_batch_size \in 1..MaxBatch :
          \/ LoadUserItemGraph(FALSE, shuffle, DefaultTrainBatchSize, test_batch_size)
          \/ LoadUserItemGraphBertEmbeddings(FALSE, shuffle, DefaultTrainBatchSize,
                                             test_batch_size)
    \/ \E test_batch_size \in 1..MaxBatch :
          LoadUserItemGraphSample(DefaultTrainBatchSize, test_batch_size)
    \/ BeginEpoch("test")
    \/ GetItem
    \/ OnEpochEnd

SpecLoaders == InitLoaders /\ [][NextLoaders]_vars

(***************************************************************************)
(* Claims about the loaders                                                *)
(***************************************************************************)
ShuffleLoaders ==
    {"load_graph_embeddings", "load_bert_embeddings", "load_hybrid_embeddings",
     "load_user_item_graph", "load_user_item_graph_bert_embeddings"}

\* C16: whatever the loader and the caller's shuffle argument, the test
\* sampler is built with shuffle unset and the training sampler of a loader
\* with a shuffle argument with that argument; in every epoch the test
\* sampler gives out the test interactions in the order of the test file.
C16_TestNeverShuffled ==
    /\ (pc = "done" /\ loaded.result.status = "ok") =>
          /\ loaded.result.data_test.kind # "UserItemGraphPosNegSample"
          /\ loaded.result.data_test.shuffle = FALSE
          /\ loaded.loader \in ShuffleLoaders =>
                 loaded.result.data_train.shuffle = loaded.shuffle
    /\ (Enumerating /\ epoch.which = "test") =>
          LET flat == Flatten(epoch.out)
          IN  /\ epoch.order = [j \in 1..Len(test_file) |-> j]
              /\ Len(flat) <= Len(test_file)
              /\ EpochComplete => Len(flat) = Len(test_file)
              /\ \A k \in 1..Len(flat) :
                     /\ Current.users[flat[k][1] + 1] = test_file[k][1]
                     /\ Current.items[flat[k][2] - Len(Current.users) + 1]
                            = test_file[k][2]
                     /\ flat[k][3] = test_file[k][3]

\* A complete epoch of the test sampler of load_hybrid_embeddings, called
\* with shuffle set, over two test rows in the opposite order of the
\* training rows.
C16_Witness ==
    /\ EpochComplete /\ epoch.which = "test"
    /\ loaded.loader = "load_hybrid_embeddings" /\ loaded.shuffle
    /\ loaded.result.data_train.shuffle
    /\ Len(train_file) = 2 /\ Len(test_file) = 2
    /\ test_file[1] = train_file[2] /\ test_file[2] = train_file[1]
    /\ test_file[1] # test_file[2]
    /\ Len(Flatten(epoch.out)) = 2

(***************************************************************************)
(* Specification of the negative draws: one call of                        *)
(* load_user_item_graph_sample, then training epochs.  The draws are fair: *)
(* while some item may be kept for the interaction at hand, a draw that    *)
(* keeps one eventually happens.  A draw that collides is drawn again and  *)
(* leaves the state as it is.                                              *)
(***************************************************************************)
InitDraws ==
    /\ pc = "start"
    /\ train_file \in {t \in PositiveTables(MaxTrain) : RatesPairsOnce(t)}
    /\ test_file = SubSeq(train_file, 1, 1)
    /\ ratings = NoReturn
    /\ IdleGraph
    /\ IdleEmbeddings
    /\ IdleModels
    /\ IdleLogger

NextDraws ==
    \/ \E train_batch_size \in 1..MaxBatch :
          LoadUserItemGraphSample(train_batch_size, DefaultTestBatchSize)
    \/ BeginEpoch("train")
    \/ DrawNegative
    \/ OnEpochEnd

SpecDraws == InitDraws /\ [][NextDraws]_vars /\ WF_vars(DrawNegative)

(***************************************************************************)
(* Claims about the negative draws                                         *)
(***************************************************************************)
\* The draw for interaction j + 1 of batch b is under way.
Pending(b, j) ==
    /\ Enumerating
    /\ Current.kind = "UserItemGraphPosNegSample"
    /\ epoch.idx = b /\ b < SamplerLen(Current)
    /\ Len(epoch.drawn) = j

\* The user of the interaction at hand has a training edge to every item.
RatedEveryItem ==
    LET row == BatchRows(Current, epoch.order, epoch.idx)[Len(epoch.drawn) + 1]
    IN  \A item \in ItemIndexes(Current) : HasEdge(Current, row[1], item)

\* C17 as stated: under fair draws the draw for every positive interaction
\* of every batch eventually ends with an item that is kept, for every user
\* of the training split.
C17_DrawTerminates ==
    \A b \in 0..MaxTrain, j \in 0..MaxBatch : Pending(b, j) ~> ~Pending(b, j)

\* What holds of the draw: it eventually ends for a user who has no
\* training edge to some item, and never for a user who has one to every
\* item.
DrawTerminatesWithFreeItem ==
    \A b \in 0..MaxTrain, j \in 0..MaxBatch :
        (Pending(b, j) /\ ~RatedEveryItem) ~> ~Pending(b, j)

DrawNeverEndsWithoutFreeItem ==
    [][\A b \in 0..MaxTrain, j \in 0..MaxBatch :
           (Pending(b, j) /\ RatedEveryItem) => Pending(b, j)']_vars

(***************************************************************************)
(* Specification of the test split's frame: the same training file is      *)
(* loaded with one test file, the caller takes another test file, and it   *)
(* is loaded again; or a graph loader is called.                           *)
(***************************************************************************)
\* The test files the caller may take: one row of any raw ids, or the
\* training file itself.
TestSplits(train) == {<<row>> : row \in {r \in RawRows : r[3] = 1}} \cup {train}

InitFrame ==
    /\ pc = "start"
    /\ train_file \in {t \in PositiveTables(MaxTrain) : RatesPairsOnce(t)}
    /\ test_file \in TestSplits(train_file)
    /\ ratings = NoReturn
    /\ IdleGraph
    /\ graph_file = <<>>
    /\ bert_user_file = BertFile(SortedSeq(RawUserIds), "profile_embedding")
    /\ bert_item_file = BertFile(SortedSeq(RawItemIds), "embedding")
    /\ loaded = NoReturn
    /\ epoch = NoEpoch
    /\ IdleModels
    /\ IdleLogger

\* Between the two calls the caller names another test file.
ChangeTestSplit(test) ==
    /\ graph[TRUE] # NoReturn /\ graph[FALSE] = NoReturn
    /\ test # test_file
    /\ test_file' = test
    /\ UNCHANGED <<pc, train_file, ratings, adjacencyVars, graph, embeddingFileVars,
                   loaded, epoch, modelVars, loggerVars>>

NextFrame ==
    \/ \E sparse_adjacency \in BOOLEAN :
          LoadTrainTestRatingsAdjacency(sparse_adjacency)
    \/ \E test \in TestSplits(train_file) : ChangeTestSplit(test)
    \/ \E shuffle \in BOOLEAN :
          \/ LoadUserItemGraph(FALSE, shuffle, DefaultTrainBatchSize,
                               DefaultTestBatchSize)
          \/ LoadUserItemGraphBertEmbeddings(FALSE, shuffle, DefaultTrainBatchSize,
                                             DefaultTestBatchSize)

SpecFrame == InitFrame /\ [][NextFrame]_vars

(***************************************************************************)
(* Claims about the test split's frame                                     *)
(***************************************************************************)
\* C18: users, items, the remapped training interactions and the adjacency
\* entries a call returns are determined by the training file: they hold
\* the raw ids of the training file only, and two calls with different test
\* files return the same; the two samplers a loader returns hold the same
\* users, items, adjacency matrix and embedding table.
C18_TestSplitFrame ==
    /\ \A sp \in BOOLEAN :
          Built(sp) =>
             /\ Values(graph[sp].users) = RawUsersOf(train_file)
             /\ Values(graph[sp].items) = RawItemsOf(train_file)
             /\ Len(graph[sp].users) = Cardinality(RawUsersOf(train_file))
             /\ Len(graph[sp].items) = Cardinality(RawItemsOf(train_file))
             /\ Len(graph[sp].train_ratings) = Len(train_file)
             /\ UserItemMatrix(sp).n = NUsers(sp) + Len(graph[sp].items)
    /\ (Built(TRUE) /\ Built(FALSE)) =>
          /\ graph[TRUE].users = graph[FALSE].users
          /\ graph[TRUE].items = graph[FALSE].items
          /\ graph[TRUE].train_ratings = graph[FALSE].train_ratings
          /\ ToDense(UserItemMatrix(TRUE)) = ToDense(UserItemMatrix(FALSE))
    /\ (pc = "done" /\ loaded # NoReturn /\ loaded.result.status = "ok") =>
          /\ loaded.result.data_train.users = loaded.result.data_test.users
          /\ loaded.result.data_train.items = loaded.result.data_test.items
          /\ loaded.result.data_train.adj_matrix = loaded.result.data_test.adj_matrix
          /\ Values(loaded.result.data_test.users) = RawUsersOf(train_file)
          /\ Values(loaded.result.data_test.items) = RawItemsOf(train_file)
          /\ loaded.loader = "load_user_item_graph_bert_embeddings" =>
                 loaded.result.data_train.embeddings
                     = loaded.result.data_test.embeddings

\* Two calls that returned, the second with another test file that gives
\* other test rows.
C18_Witness ==
    /\ Built(TRUE) /\ Built(FALSE)
    /\ Len(train_file) = 2
    /\ graph[TRUE].test_ratings # graph[FALSE].test_ratings
    /\ Len(graph[FALSE].test_ratings) = 1
    /\ test_file # train_file

(***************************************************************************)
(* get_experiment_logger (utilities/utils.py).  logging.getLogger gives    *)
(* the one logger 'callback' of the process; a handler is an object, told  *)
(* from every other by the order of its creation.                          *)
(***************************************************************************)
MaxHandlers == 3
MaxCalls == 3
MaxRecords == 2

DestinationFolders == {"exp_a", "exp_b", "exp_c"}

\* A handler some other code attached to the logger before the first call.
OtherHandler(j) == [file |-> <<"other", "stream">>, serial |-> 0 - j]

\* FlushFileHandler(os.path.join(destination_folder, 'log.txt'))
FlushFileHandler(destination_folder, serial) ==
    [file |-> <<destination_folder, "log.txt">>, serial |-> serial]

\* Logger.removeHandler: list.remove of the handler, if the list holds it.
RECURSIVE removeHandler(_, _)
removeHandler(handlers, hdlr) ==
    IF handlers = <<>> THEN <<>>
    ELSE IF Head(handlers) = hdlr THEN Tail(handlers)
    ELSE <<Head(handlers)>> \o removeHandler(Tail(handlers), hdlr)

\* for handler in logger.handlers: logger.removeHandler(handler)
\* The loop reads position i of the list the removals shorten, for
\* i = 0, 1, ... while i is a position of the list.
RECURSIVE RemoveWhileIterating(_, _)
RemoveWhileIterating(handlers, i) ==
    IF i >= Len(handlers) THEN handlers
    ELSE RemoveWhileIterating(removeHandler(handlers, handlers[i + 1]), i + 1)

get_experiment_logger(callback, destination_folder, serial) ==
    [handlers  |-> Append(RemoveWhileIterating(callback.handlers, 0),
                          FlushFileHandler(destination_folder, serial)),
     level     |-> "INFO",
     propagate |-> FALSE]

\* logger.info(record): every handler of the logger writes the record to
\* its file.
Emitted(callback) == [k \in 1..Len(callback.handlers) |-> callback.handlers[k].file]

(***************************************************************************)
(* Specification of the experiment logger: a process whose logger holds    *)
(* none, one or several handlers calls get_experiment_logger, once per     *)
(* experiment                                                              *)
(***************************************************************************)
InitLogger ==
    /\ pc = "start"
    /\ train_file = <<>>
    /\ test_file = <<>>
    /\ ratings = NoReturn
    /\ IdleGraph
    /\ IdleEmbeddings
    /\ IdleModels
    /\ logger \in {[handlers |-> [j \in 1..n |-> OtherHandler(j)],
                    level |-> "NOTSET", propagate |-> TRUE] : n \in 0..MaxHandlers}
    /\ created = 0
    /\ written = <<>>

GetExperimentLogger(destination_folder) ==
    /\ created < MaxCalls
    /\ logger' = get_experiment_logger(logger, destination_folder, created + 1)
    /\ created' = created + 1
    /\ UNCHANGED <<pc, fileVars, ratings, adjacencyVars, graph, embeddingFileVars,
                   loaded, epoch, modelVars, written>>

\* The experiment logs a record through the logger it was given.
Info ==
    /\ created > 0
    /\ Len(written) < MaxRecords
    /\ written' = Append(written, Emitted(logger))
    /\ UNCHANGED <<pc, fileVars, ratings, adjacencyVars, graph, embeddingFileVars,
                   loaded, epoch, modelVars, logger, created>>

NextLogger ==
    \/ \E destination_folder \in DestinationFolders :
          GetExperimentLogger(destination_folder)
    \/ Info

SpecLogger == InitLogger /\ [][NextLogger]_vars

(***************************************************************************)
(* Claims about the experiment logger                                      *)
(***************************************************************************)
\* C20 as stated: after every call, whatever handlers the logger held
\* before, its only handler is the new file handler, so that a record is
\* never written to more than one file.
C20_OnlyNewHandler ==
    created > 0 =>
        /\ Len(logger.handlers) = 1
        /\ logger.handlers[1].serial = created
        /\ \A k \in 1..Len(written) : Len(written[k]) = 1

\* What holds of the code: a call removes the handlers at the even
\* positions 0, 2, ... of the list and keeps the others, then adds the new
\* handler; from a logger with at most one handler every call leaves the
\* new handler alone, from a logger with two or more it never does.
HandlersHalved ==
    [][/\ Len(logger'.handlers) = Len(logger.handlers) \div 2 + 1
       /\ logger'.handlers[Len(logger'.handlers)].serial = created'
       /\ \A k \in 1..(Len(logger.handlers) \div 2) :
              logger'.handlers[k] = logger.handlers[2 * k]
       /\ logger'.level = "INFO" /\ ~logger'.propagate
      ]_<<logger, created>>

====
